---- MODULE Spec2Model ----
(***************************************************************************)
(* Two-phase language statistics of datatrove:                             *)
(*   LanguageStatsCalculator.run  (the per-rank collector, a generator)    *)
(*   LanguageStatsReducer.run     (the single merging step)                *)
(* src/src/datatrove/pipeline/stats/lang_stats.py                          *)
(*                                                                         *)
(* Floating point numbers are modelled by exact rationals <<n, d>>, d > 0, *)
(* in lowest terms; a text is a sequence of one-character strings.         *)
(***************************************************************************)
EXTENDS Integers, Sequences, FiniteSets, TLC

\* ------------------------------------------------------------------ bounds
\* number of collector ranks that run against the same output folder
NumRanks == 2
\* total number of documents the collectors take from their input streams
MaxCorpus == 3

Ranks == 0 .. (NumRanks - 1)

\* ------------------------------------------------------------- rationals
RECURSIVE GCD(_, _)
GCD(a, b) == IF b = 0 THEN a ELSE GCD(b, a % b)

Abs(x) == IF x < 0 THEN -x ELSE x

\* the quotient n / d of two integers, d # 0, in lowest terms
Rat(n, d) ==
    LET g == GCD(Abs(n), Abs(d))
        s == IF d < 0 THEN -1 ELSE 1
    IN  <<(s * n) \div g, (s * d) \div g>>

RZero == <<0, 1>>
RAdd(x, y) == Rat(x[1] * y[2] + y[1] * x[2], x[2] * y[2])
RSub(x, y) == Rat(x[1] * y[2] - y[1] * x[2], x[2] * y[2])
RMul(x, y) == Rat(x[1] * y[1], x[2] * y[2])
RDiv(x, y) == Rat(x[1] * y[2], x[2] * y[1])
RInt(n) == <<n, 1>>
RLess(x, y) == x[1] * y[2] < y[1] * x[2]

RECURSIVE RSum(_)
RSum(s) == IF s = <<>> THEN RZero ELSE RAdd(Head(s), RSum(Tail(s)))

\* values ** 2, elementwise
Squares(s) == [i \in DOMAIN s |-> RMul(s[i], s[i])]

\* np.mean of a non-empty sequence of values
NpMean(s) == RDiv(RSum(s), RInt(Len(s)))

\* ------------------------------------------------------------ characters
Letters == {"a", "b", "A"}
Whitespace == {" ", "\n", "\t"}
\* string.punctuation, character by character (the double quote and the
\* backquote are written DQUOTE and BACKTICK, one-character strings like the
\* others)
Punctuation ==
    <<"!", "DQUOTE", "#", "$", "%", "&", "'", "(", ")", "*", "+", ",", "-", ".",
      "/", ":", ";", "<", "=", ">", "?", "@", "[", "\\", "]", "^", "_", "BACKTICK",
      "{", "|", "}", "~">>
\* the two non-ASCII characters the collector looks for
BulletChar == "BULLET"
EllipsisChar == "ELLIPSIS"

IsAlpha(c) == c \in Letters
Lower(c) == IF c = "A" THEN "a" ELSE c
\* bytes of the UTF-8 encoding of one character
Utf8Len(c) == IF c \in {BulletChar, EllipsisChar} THEN 3 ELSE 1

\* -------------------------------------------------------- str operations
RECURSIVE EncodedLen(_)
EncodedLen(t) == IF t = <<>> THEN 0 ELSE Utf8Len(Head(t)) + EncodedLen(Tail(t))

StartsWith(t, p) == Len(t) >= Len(p) /\ SubSeq(t, 1, Len(p)) = p
EndsWith(t, p) == Len(t) >= Len(p) /\ SubSeq(t, Len(t) - Len(p) + 1, Len(t)) = p

\* str.count(sub): the number of non-overlapping occurrences of sub
RECURSIVE StrCount(_, _)
StrCount(t, sub) ==
    IF Len(t) < Len(sub) THEN 0
    ELSE IF StartsWith(t, sub)
         THEN 1 + StrCount(SubSeq(t, Len(sub) + 1, Len(t)), sub)
         ELSE StrCount(Tail(t), sub)

\* w in s, for strings: w occurs in s as a substring
IsSubstring(w, s) ==
    \E i \in 0 .. (Len(s) - Len(w)) : SubSeq(s, i + 1, i + Len(w)) = w

RECURSIVE LStrip(_)
LStrip(t) == IF t # <<>> /\ Head(t) \in Whitespace THEN LStrip(Tail(t)) ELSE t

RECURSIVE RStrip(_)
RStrip(t) ==
    IF t # <<>> /\ t[Len(t)] \in Whitespace
    THEN RStrip(SubSeq(t, 1, Len(t) - 1)) ELSE t

Strip(t) == LStrip(RStrip(t))

\* str.split("\n"): always at least one piece
RECURSIVE SplitNewline(_)
SplitNewline(t) ==
    IF \A i \in DOMAIN t : t[i] # "\n" THEN <<t>>
    ELSE LET k == CHOOSE i \in DOMAIN t :
                     t[i] = "\n" /\ \A j \in 1 .. (i - 1) : t[j] # "\n"
         IN  <<SubSeq(t, 1, k - 1)>> \o SplitNewline(SubSeq(t, k + 1, Len(t)))

\* str.splitlines(): no piece for the empty text nor after a final newline
SplitLines(t) ==
    LET p == SplitNewline(t)
    IN  IF p[Len(p)] = <<>> THEN SubSeq(p, 1, Len(p) - 1) ELSE p

\* str.replace("\n", "")
RemoveNewlines(t) == SelectSeq(t, LAMBDA c : c # "\n")

\* word.lower()
LowerStr(w) == [i \in DOMAIN w |-> Lower(w[i])]

\* the number of elements of a sequence that satisfy Test
CountIf(s, Test(_)) == Len(SelectSeq(s, Test))

\* ------------------------------------------------------ dict and Counter
\* A Python dict is a sequence of <<key, value>> pairs in insertion order.
DictKeys(d) == [i \in DOMAIN d |-> d[i][1]]
DictHas(d, k) == \E i \in DOMAIN d : d[i][1] = k
DictGet(d, k) == d[CHOOSE i \in DOMAIN d : d[i][1] = k][2]
DictSet(d, k, v) ==
    IF DictHas(d, k)
    THEN [i \in DOMAIN d |-> IF d[i][1] = k THEN <<k, v>> ELSE d[i]]
    ELSE Append(d, <<k, v>>)
\* the items of a dict as a set: dict equality does not look at the order
DictItems(d) == {d[i] : i \in DOMAIN d}

\* Counter()[k]: a missing key counts 0
CounterGet(c, k) == IF DictHas(c, k) THEN DictGet(c, k) ELSE 0
\* (mutant) counter[k] += 1 whatever n is
CounterIncOne(c, k, n) == DictSet(c, k, CounterGet(c, k) + 1)

\* counter[k] += n
CounterInc(c, k, n) == DictSet(c, k, CounterGet(c, k) + n)
\* Counter._keep_positive
KeepPositive(c) == SelectSeq(c, LAMBDA e : e[2] > 0)

\* Counter.__iadd__: self[elem] += count for every item of other, then
\* _keep_positive
RECURSIVE CounterAddAll(_, _)
CounterAddAll(c, other) ==
    IF other = <<>> THEN c
    ELSE CounterAddAll(CounterInc(c, Head(other)[1], Head(other)[2]), Tail(other))

\* (mutant) self[elem] = count instead of self[elem] += count
CounterIAddLossy(c, other) ==
    LET RECURSIVE Put(_, _)
        Put(acc, o) ==
            IF o = <<>> THEN acc
            ELSE Put(DictSet(acc, Head(o)[1], Head(o)[2]), Tail(o))
    IN  KeepPositive(Put(c, other))

CounterIAdd(c, other) == KeepPositive(CounterAddAll(c, other))

\* the sum of the counts of a Counter
RECURSIVE CounterTotal(_)
CounterTotal(c) == IF c = <<>> THEN 0 ELSE Head(c)[2] + CounterTotal(Tail(c))

\* ------------------------------------------------------------- tokenizer
\* get_word_tokenizer(language).tokenize(text): runs of letters are tokens,
\* every other non-blank character is a token of its own, blanks separate.
RECURSIVE LetterRun(_)
LetterRun(t) ==
    IF t # <<>> /\ IsAlpha(Head(t)) THEN 1 + LetterRun(Tail(t)) ELSE 0

RECURSIVE Tokenize(_)
Tokenize(t) ==
    IF t = <<>> THEN <<>>
    ELSE IF Head(t) \in Whitespace THEN Tokenize(Tail(t))
    ELSE IF IsAlpha(Head(t))
         THEN LET n == LetterRun(t)
              IN  <<SubSeq(t, 1, n)>> \o Tokenize(SubSeq(t, n + 1, Len(t)))
         ELSE <<<<Head(t)>>>> \o Tokenize(Tail(t))

\* find_duplicates(x)[1]: the characters in elements that repeat an earlier one
RECURSIVE DuplicateChars(_, _)
DuplicateChars(x, seen) ==
    IF x = <<>> THEN 0
    ELSE IF Head(x) \in seen
         THEN Len(Head(x)) + DuplicateChars(Tail(x), seen)
         ELSE DuplicateChars(Tail(x), seen \cup {Head(x)})

\* ------------------------------------------------------------- documents
\* doc.metadata.get(field) of a missing field
None == "None:NoneType"
language_field == "language"

MetadataGet(metadata, field) ==
    IF field \in DOMAIN metadata THEN metadata[field] ELSE None

TextEmpty == <<>>
TextHash == <<"#">>
TextAAB == <<"a", " ", "a", " ", "b">>
TextMixed == <<"-", "#", "A", ".", ".", ".", "\n", "b", "\n", "b">>

Docs ==
    { [text |-> TextEmpty, metadata |-> [language |-> "en"]],
      [text |-> TextAAB, metadata |-> [language |-> "en"]],
      [text |-> TextMixed, metadata |-> [language |-> "en"]],
      [text |-> TextHash, metadata |-> [dump |-> "CC-MAIN"]] }

\* -------------------------------------------------- per-document metrics
MEAN_STD_KEYS ==
    <<"hash_word_ratio", "ellipsis_word_ratio", "bullet_start_ratio",
      "ellipsis_end_ratio", "alpha_ratio", "line_punct_ratio",
      "short_line_ratio", "duplicate_line_ratio", "new_line_ratio">>
MetricKeys == {MEAN_STD_KEYS[i] : i \in DOMAIN MEAN_STD_KEYS}

\* the result of a division that raised ZeroDivisionError
Raised == <<"ZeroDivisionError">>
IsRaised(v) == Len(v) = 1

\* n / d as Python evaluates it
PyDiv(n, d) == IF d = 0 THEN Raised ELSE Rat(n, d)

\* (n / d) if d > 0 else 0
GuardedDiv(n, d) == IF d > 0 THEN Rat(n, d) ELSE RZero

\* words = [w for w in tokenizer.tokenize(text) if w not in string.punctuation]
Words(text) ==
    SelectSeq(Tokenize(text), LAMBDA w : ~IsSubstring(w, Punctuation))

stop_chars == {".", "'", "DQUOTE", "!", "?"}

\* the nine values the collector computes for one document, in the order
\* it appends them
DocRatios(text) ==
    LET words == Words(text)
        n_words == Len(words)
        lines == SplitLines(text)
        n_lines == Len(lines)
        flines == SplitNewline(text)
        non_empty == SelectSeq(flines, LAMBDA l : Strip(l) # <<>>)
    IN  [k \in MetricKeys |->
          CASE k = "hash_word_ratio" ->
                 GuardedDiv(StrCount(text, <<"#">>), n_words)
            [] k = "ellipsis_word_ratio" ->
                 GuardedDiv(StrCount(text, <<".", ".", ".">>)
                              + StrCount(text, <<EllipsisChar>>), n_words)
            [] k = "bullet_start_ratio" ->
                 GuardedDiv(CountIf(lines, LAMBDA s :
                                StartsWith(LStrip(s), <<BulletChar>>)
                                  \/ StartsWith(LStrip(s), <<"-">>)), n_lines)
            [] k = "ellipsis_end_ratio" ->
                 GuardedDiv(CountIf(lines, LAMBDA s :
                                EndsWith(RStrip(s), <<".", ".", ".">>)
                                  \/ EndsWith(RStrip(s), <<EllipsisChar>>)), n_lines)
            [] k = "alpha_ratio" ->
                 GuardedDiv(CountIf(words, LAMBDA w :
                                \E i \in DOMAIN w : IsAlpha(w[i])), n_words)
            [] k = "line_punct_ratio" ->
                 PyDiv(CountIf(flines, LAMBDA l :
                           l # <<>> /\ l[Len(l)] \in stop_chars), Len(flines))
            [] k = "short_line_ratio" ->
                 PyDiv(CountIf(flines, LAMBDA l : Len(l) <= 30), Len(flines))
            [] k = "duplicate_line_ratio" ->
                 PyDiv(DuplicateChars(non_empty, {}), Len(RemoveNewlines(text)))
            [] k = "new_line_ratio" ->
                 PyDiv(StrCount(text, <<"\n">>), Len(Tokenize(text)))]

\* ---------------------------------------------------- running aggregate
\* default of LanguageStatsCalculator.__init__
word_count_prune == 2

\* stats[language] = {...} for a language seen for the first time
NewAggregate ==
    [length_counter |-> <<>>, word_counter |-> <<>>,
     total_words |-> 0, total_docs |-> 0, total_bytes |-> 0,
     ratios |-> [k \in MetricKeys |-> <<>>]]

\* (mutant) word_counter[word.lower()] = 1 in place of += 1
RECURSIVE CountWordsOnce(_, _)
CountWordsOnce(agg, words) ==
    IF words = <<>> THEN agg
    ELSE CountWordsOnce(
           [agg EXCEPT
              !.length_counter = CounterInc(@, Len(Head(words)), 1),
              !.word_counter = DictSet(@, LowerStr(Head(words)), 1)],
           Tail(words))

\* for word in words: length_counter[len(word)] += 1;
\*                    word_counter[word.lower()] += 1
RECURSIVE CountWords(_, _)
CountWords(agg, words) ==
    IF words = <<>> THEN agg
    ELSE CountWords(
           [agg EXCEPT
              !.length_counter = CounterInc(@, Len(Head(words)), 1),
              !.word_counter = CounterInc(@, LowerStr(Head(words)), 1)],
           Tail(words))

\* the position in MEAN_STD_KEYS of the first value that raised, or 10
FirstRaised(vals) ==
    LET bad == {i \in DOMAIN MEAN_STD_KEYS : IsRaised(vals[MEAN_STD_KEYS[i]])}
    IN  IF bad = {} THEN Len(MEAN_STD_KEYS) + 1
        ELSE CHOOSE i \in bad : \A j \in bad : i <= j

KeyIndex(k) == CHOOSE i \in DOMAIN MEAN_STD_KEYS : MEAN_STD_KEYS[i] = k

\* (mutant) a document without words leaves no hash_word_ratio
UpdateAggregateSkipEmpty(agg, text) ==
    LET vals == DocRatios(text)
        stop == FirstRaised(vals)
        counted == CountWords(
                     [agg EXCEPT !.total_docs = @ + 1,
                                 !.total_words = @ + Len(Words(text)),
                                 !.total_bytes = @ + EncodedLen(text)],
                     Words(text))
    IN  [counted EXCEPT
           !.ratios = [k \in MetricKeys |->
                         IF /\ KeyIndex(k) < stop
                            /\ (k # "hash_word_ratio" \/ Len(Words(text)) > 0)
                         THEN Append(@[k], vals[k])
                         ELSE @[k]]]

\* the body of the collector's loop for one document, up to the yield or
\* to the division that raises
UpdateAggregate(agg, text) ==
    LET vals == DocRatios(text)
        stop == FirstRaised(vals)
        counted == CountWords(
                     [agg EXCEPT !.total_docs = @ + 1,
                                 !.total_words = @ + Len(Words(text)),
                                 !.total_bytes = @ + EncodedLen(text)],
                     Words(text))
    IN  [counted EXCEPT
           !.ratios = [k \in MetricKeys |->
                         IF KeyIndex(k) < stop THEN Append(@[k], vals[k])
                         ELSE @[k]]]

DocRaises(text) == FirstRaised(DocRatios(text)) <= Len(MEAN_STD_KEYS)

\* (mutant) the default threshold whatever word_count_prune is
PruneWordsFixed(word_counter, threshold) ==
    SelectSeq(word_counter, LAMBDA e : e[2] >= 2)

\* (mutant) the threshold itself is pruned too
PruneWordsStrict(word_counter, threshold) ==
    SelectSeq(word_counter, LAMBDA e : e[2] > threshold)

\* Counter({k: v for k, v in word_counter.items() if v >= word_count_prune})
PruneWords(word_counter, threshold) ==
    SelectSeq(word_counter, LAMBDA e : e[2] >= threshold)

\* the end-of-stream loop of the collector for one language: the sequences
\* become their mean and the mean of their squares, the words are pruned
FinalizeAggregate(agg) ==
    [length_counter |-> agg.length_counter,
     word_counter |-> PruneWords(agg.word_counter, word_count_prune),
     total_words |-> agg.total_words,
     total_docs |-> agg.total_docs,
     total_bytes |-> agg.total_bytes,
     mean |-> [k \in MetricKeys |-> NpMean(agg.ratios[k])],
     sq_mean |-> [k \in MetricKeys |-> NpMean(Squares(agg.ratios[k]))]]

\* stats after one document: the language's aggregate is created on first
\* sight and updated
UpdateStats(st, doc) ==
    LET language == MetadataGet(doc.metadata, language_field)
        agg == IF DictHas(st, language) THEN DictGet(st, language)
               ELSE NewAggregate
    IN  DictSet(st, language, UpdateAggregate(agg, doc.text))

FinalizeStats(st) ==
    [i \in DOMAIN st |-> <<st[i][1], FinalizeAggregate(st[i][2])>>]

\* ------------------------------------------------------- artifact files
\* f"{language}" and f"{rank:05d}"
FormatStr(v) == IF v = None THEN "None" ELSE v
Rank05d(rank) ==
    IF rank < 10 THEN "0000" \o ToString(rank)
    ELSE IF rank < 100 THEN "000" \o ToString(rank)
    ELSE IF rank < 1000 THEN "00" \o ToString(rank)
    ELSE IF rank < 10000 THEN "0" \o ToString(rank)
    ELSE ToString(rank)

\* f"/{language}/{rank:05d}.json" as <<directory, name, extension>>
ArtifactPath(language, rank) == <<FormatStr(language), Rank05d(rank), "json">>

\* json.dump turns the keys of an object into strings
JsonKey(k) == IF k = None THEN "null" ELSE k
MaxIntKey == 40
IntKeyToStr(n) == ToString(n)
\* int(k)
StrToInt(str) == CHOOSE n \in 0 .. MaxIntKey : ToString(n) = str

\* json.dump({language: stats[language]}, f)
JsonDump(language, art) ==
    [ok |-> TRUE,
     data |-> << <<JsonKey(language),
                   [art EXCEPT !.length_counter =
                      [i \in DOMAIN @ |-> <<IntKeyToStr(@[i][1]), @[i][2]>>]]>> >>]

\* a file json.load cannot parse
CorruptFile == [ok |-> FALSE, data |-> <<>>]

\* an artifact of a language with no documents
ZeroDocsFile(language) ==
    JsonDump(language,
             [length_counter |-> <<>>, word_counter |-> <<>>,
              total_words |-> 0, total_docs |-> 0, total_bytes |-> 0,
              mean |-> [k \in MetricKeys |-> RZero],
              sq_mean |-> [k \in MetricKeys |-> RZero]])

\* an artifact whose means of squares were rounded to a value below the
\* squares of its means
RoundedFile(language) ==
    JsonDump(language,
             [length_counter |-> <<>>, word_counter |-> <<>>,
              total_words |-> 0, total_docs |-> 1, total_bytes |-> 1,
              mean |-> [k \in MetricKeys |-> Rat(1, 3)],
              sq_mean |-> [k \in MetricKeys |-> Rat(1, 10)]])

ForeignPath == <<"ko", "99999", "json">>
ForeignFiles == {CorruptFile, ZeroDocsFile("ko")}

\* (mutant) a file that does not parse is read as an empty object
JsonLoadLenient(content) == [raised |-> FALSE, data |-> content.data]

\* json.load(f): the parsed object, or an exception
JsonLoad(content) == [raised |-> ~content.ok, data |-> content.data]

\* list_files(glob_pattern="**/*.json")
GlobJson(dir) == {p \in DOMAIN dir : p[3] = "json"}

\* open(path, "wt") and write
WriteFile(dir, path, content) ==
    [p \in DOMAIN dir \cup {path} |-> IF p = path THEN content ELSE dir[p]]

\* --------------------------------------------------------------- reducer
\* stats[language] = {...} for a language seen for the first time
NewMerge ==
    [length_counter |-> <<>>, word_counter |-> <<>>,
     total_words |-> 0, total_docs |-> 0, total_bytes |-> 0,
     mean |-> [k \in MetricKeys |-> <<>>],
     std |-> [k \in MetricKeys |-> <<>>]]

\* Counter({int(k): v for k, v in file_data[language]["length_counter"].items()})
ParseLengthCounter(c) == [i \in DOMAIN c |-> <<StrToInt(c[i][1]), c[i][2]>>]

\* the statements of the reducer's loop for one language of one file
MergeEntry(m, entry) ==
    [length_counter |-> CounterIAdd(m.length_counter,
                                    ParseLengthCounter(entry.length_counter)),
     word_counter |-> CounterIAdd(m.word_counter, entry.word_counter),
     total_words |-> m.total_words + entry.total_words,
     total_docs |-> m.total_docs + entry.total_docs,
     total_bytes |-> m.total_bytes + entry.total_bytes,
     mean |-> [k \in MetricKeys |-> Append(m.mean[k], entry.mean[k])],
     std |-> [k \in MetricKeys |-> Append(m.std[k], entry.sq_mean[k])]]

\* for language in file_data: ..., on the pair [stats, doc_count]
RECURSIVE MergeFile(_, _)
MergeFile(acc, data) ==
    IF data = <<>> THEN acc
    ELSE LET language == Head(data)[1]
             m == IF DictHas(acc.stats, language)
                  THEN DictGet(acc.stats, language) ELSE NewMerge
             dc == IF DictHas(acc.doc_count, language)
                   THEN DictGet(acc.doc_count, language) ELSE <<>>
         IN  MergeFile(
               [stats |-> DictSet(acc.stats, language,
                                  MergeEntry(m, Head(data)[2])),
                doc_count |-> DictSet(acc.doc_count, language,
                                      Append(dc, Head(data)[2].total_docs))],
               Tail(data))

RECURSIVE IntSum(_)
IntSum(s) == IF s = <<>> THEN 0 ELSE Head(s) + IntSum(Tail(s))

RECURSIVE WeightedSum(_, _)
WeightedSum(values, weights) ==
    IF values = <<>> THEN RZero
    ELSE RAdd(RMul(RInt(Head(weights)), Head(values)),
              WeightedSum(Tail(values), Tail(weights)))

\* (mutant) the weights are ignored
NpAverageUnweighted(values, weights) ==
    IF IntSum(weights) = 0 THEN Raised ELSE NpMean(values)

\* np.average(values, weights=weights): ZeroDivisionError when the weights
\* sum to zero
NpAverage(values, weights) ==
    IF IntSum(weights) = 0 THEN Raised
    ELSE RDiv(WeightedSum(values, weights), RInt(IntSum(weights)))

\* np.sqrt: nan for a negative argument
NpSqrt(v) == [nan |-> RLess(v, RZero), sqrt_of |-> v]

\* (mutant) the mean is not squared in the variance
AverageLanguageNoSquare(m, weights) ==
    [m EXCEPT
       !.mean = [k \in MetricKeys |-> NpAverage(m.mean[k], weights)],
       !.std = [k \in MetricKeys |->
                  NpSqrt(RSub(NpAverage(m.std[k], weights),
                              NpAverage(m.mean[k], weights)))]]

\* E_X, E_X2 and the two assignments for one language
AverageLanguage(m, weights) ==
    [m EXCEPT
       !.mean = [k \in MetricKeys |-> NpAverage(m.mean[k], weights)],
       !.std = [k \in MetricKeys |->
                  LET E_X == NpAverage(m.mean[k], weights)
                      E_X2 == NpAverage(m.std[k], weights)
                  IN  NpSqrt(RSub(E_X2, RMul(E_X, E_X)))]]

AverageRaises(st, dc) ==
    \E i \in DOMAIN st : IntSum(DictGet(dc, st[i][1])) = 0

AverageStats(st, dc) ==
    [i \in DOMAIN st |->
       <<st[i][1], AverageLanguage(st[i][2], DictGet(dc, st[i][1]))>>]

\* Counter.most_common(n): by decreasing count, equal counts in insertion
\* order
TopWords == 10000
RECURSIVE MostCommon(_, _)
MostCommon(c, n) ==
    IF c = <<>> \/ n = 0 THEN <<>>
    ELSE LET i == CHOOSE j \in DOMAIN c :
                    /\ \A l \in DOMAIN c : c[l][2] <= c[j][2]
                    /\ \A l \in 1 .. (j - 1) : c[l][2] < c[j][2]
             rest == [l \in 1 .. (Len(c) - 1) |-> IF l < i THEN c[l] ELSE c[l + 1]]
         IN  <<c[i]>> \o MostCommon(rest, n - 1)

\* LanguageStatistics(...) and the default map_fn, to_dict
MapLanguage(language, v) ==
    [language |-> language,
     word_counter |-> MostCommon(v.word_counter, TopWords),
     length_counter |-> v.length_counter,
     total_words |-> v.total_words,
     total_docs |-> v.total_docs,
     total_bytes |-> v.total_bytes,
     mean |-> v.mean,
     std |-> v.std]

MapStats(st) == [i \in DOMAIN st |-> <<st[i][1], MapLanguage(st[i][1], st[i][2])>>]

\* (mutant) one report name for every language
ReportPathFixed(language) == <<"stats", "yml">>

\* f"{language}.yml"
ReportPath(language) == <<language, "yml">>

\* (mutant) no check of world_size
WorldSizeAcceptedAny(ws) == TRUE

\* assert world_size == 1
WorldSizeAccepted(ws) == ws = 1

\* ------------------------------------------------- MultilingualTokenizer
\* a tokenizer object: its class and the argument of its constructor
NLTKTokenizer(punkt_language) == [class |-> "NLTKTokenizer", arg |-> punkt_language]
KiwiTokenizer == [class |-> "KiwiTokenizer", arg |-> None]
SpaCyTokenizer(spacy_language) == [class |-> "SpaCyTokenizer", arg |-> spacy_language]
\* None where a tokenizer object is expected
NoTokenizer == [class |-> "NoneType", arg |-> None]

\* the registered languages and what their factories build
WORD_TOKENIZER_FACTORY ==
    [l \in {"en", "ko", "hi"} |->
        CASE l = "en" -> NLTKTokenizer("english")
          [] l = "ko" -> KiwiTokenizer
          [] l = "hi" -> SpaCyTokenizer("hi")]

\* the languages and texts the tokenizer is called with
TokenizerLanguages == {"en", "ko", "hi", "zz", "yy", None}
TokenizerTexts == {<<>>, <<"a", " ", "b">>}

\* _get_fallback_tokenizer: built once, then kept
GetFallbackTokenizer(fallback) ==
    IF fallback = NoTokenizer THEN SpaCyTokenizer("xx") ELSE fallback

\* (mutant) no fallback: an unregistered language gets the English tokenizer
GetTokenizerEnglish(cache, fallback, factory_dict, language) ==
    IF language \in DOMAIN cache
    THEN [tokenizers |-> cache, fallback_tokenizer |-> fallback,
          tokenizer |-> cache[language]]
    ELSE LET tokenizer == IF language \notin DOMAIN factory_dict
                          THEN factory_dict["en"]
                          ELSE factory_dict[language]
         IN  [tokenizers |-> [l \in DOMAIN cache \cup {language} |->
                                IF l = language THEN tokenizer ELSE cache[l]],
              fallback_tokenizer |-> fallback,
              tokenizer |-> tokenizer]

\* _get_tokenizer: the cache, then the factory or the fallback
GetTokenizer(cache, fallback, factory_dict, language) ==
    IF language \in DOMAIN cache
    THEN [tokenizers |-> cache, fallback_tokenizer |-> fallback,
          tokenizer |-> cache[language]]
    ELSE LET tokenizer == IF language \notin DOMAIN factory_dict
                          THEN GetFallbackTokenizer(fallback)
                          ELSE factory_dict[language]
         IN  [tokenizers |-> [l \in DOMAIN cache \cup {language} |->
                                IF l = language THEN tokenizer ELSE cache[l]],
              fallback_tokenizer |-> IF language \notin DOMAIN factory_dict
                                     THEN tokenizer ELSE fallback,
              tokenizer |-> tokenizer]

\* ----------------------------------------------------------------- state
VARIABLES
    pc,         \* per rank: where the collector's generator stands
    stats,      \* per rank: the collector's stats dict
    taken,      \* per rank: the documents taken from the input stream
    out,        \* per rank: the documents yielded downstream
    written,    \* per rank: the paths the collector opened for writing
    folder,     \* the artifact folder: path -> file content
    rpc,        \* where the reducer stands
    world_size, \* the world_size the reducer was called with
    listing,    \* the listed files the reducer has not read yet
    read,       \* the files the reducer has read, in order
    rstats,     \* the reducer's stats dict
    doc_count,  \* the reducer's doc_count dict
    map_calls,  \* the keys map_fn was called for, in order
    reports,    \* the reducer's output folder: path -> report
    tokenizers,         \* MultilingualTokenizer._tokenizers
    fallback_tokenizer, \* MultilingualTokenizer._fallback_tokenizer
    last_call           \* the last word_tokenize / sent_tokenize call

vars == <<pc, stats, taken, out, written, folder, rpc, world_size, listing,
          read, rstats, doc_count, map_calls, reports,
          tokenizers, fallback_tokenizer, last_call>>
cvars == <<pc, stats, taken, out, written>>
rvars == <<rpc, world_size, listing, read, rstats, doc_count, map_calls, reports>>
tvars == <<tokenizers, fallback_tokenizer, last_call>>

EmptyFolder == [p \in {} |-> CorruptFile]

\* MultilingualTokenizer.__init__
InitTokenizer ==
    /\ tokenizers = [l \in {} |-> NoTokenizer]
    /\ fallback_tokenizer = NoTokenizer
    /\ last_call = [method |-> None, language |-> None, text |-> <<>>,
                    cached |-> FALSE, tokenizer |-> NoTokenizer]

Init ==
    /\ pc = [r \in Ranks |-> "loop"]
    /\ stats = [r \in Ranks |-> <<>>]
    /\ taken = [r \in Ranks |-> <<>>]
    /\ out = [r \in Ranks |-> <<>>]
    /\ written = [r \in Ranks |-> <<>>]
    /\ folder = EmptyFolder
    /\ rpc = "init"
    /\ world_size = 1
    /\ listing = {}
    /\ read = <<>>
    /\ rstats = <<>>
    /\ doc_count = <<>>
    /\ map_calls = <<>>
    /\ reports = EmptyFolder
    /\ InitTokenizer

RECURSIVE TotalTaken(_)
TotalTaken(rs) ==
    IF rs = {} THEN 0
    ELSE LET r == CHOOSE x \in rs : TRUE
         IN  Len(taken[r]) + TotalTaken(rs \ {r})

\* ------------------------------------------------------------- collector
\* for doc in data: one document is taken and processed; the generator
\* either raises inside the loop body or suspends at "yield doc"
Take(r, doc) ==
    /\ pc[r] = "loop"
    /\ TotalTaken(Ranks) < MaxCorpus
    /\ taken' = [taken EXCEPT ![r] = Append(@, doc)]
    /\ stats' = [stats EXCEPT ![r] = UpdateStats(@, doc)]
    /\ IF DocRaises(doc.text)
       THEN /\ pc' = [pc EXCEPT ![r] = "failed"]
            /\ out' = out
       ELSE /\ pc' = [pc EXCEPT ![r] = "yield"]
            /\ out' = [out EXCEPT ![r] = Append(@, doc)]
    /\ UNCHANGED <<written, folder>>
    /\ UNCHANGED rvars
    /\ UNCHANGED tvars

\* the consumer asks for the next document: the generator resumes
Resume(r) ==
    /\ pc[r] = "yield"
    /\ pc' = [pc EXCEPT ![r] = "loop"]
    /\ UNCHANGED <<stats, taken, out, written, folder>>
    /\ UNCHANGED rvars
    /\ UNCHANGED tvars

\* the input stream is exhausted: means, squared means and pruning for
\* every language
EndOfStream(r) ==
    /\ pc[r] = "loop"
    /\ stats' = [stats EXCEPT ![r] = FinalizeStats(@)]
    /\ pc' = [pc EXCEPT ![r] = IF stats[r] = <<>> THEN "done" ELSE "save"]
    /\ UNCHANGED <<taken, out, written, folder>>
    /\ UNCHANGED rvars
    /\ UNCHANGED tvars

\* the consumer stops pulling: the generator is closed where it stands, at
\* "yield doc", and nothing after the yield runs
Abandon(r) ==
    /\ pc[r] = "yield"
    /\ pc' = [pc EXCEPT ![r] = "closed"]
    /\ UNCHANGED <<stats, taken, out, written, folder>>
    /\ UNCHANGED rvars
    /\ UNCHANGED tvars

\* (mutant) the save loop in a finally clause: it also runs when the
\* generator raised or was closed
SavePointsFinally == {"save", "failed", "closed"}

\* where the save loop runs: after the finalization only
SavePoints == {"save"}

\* for language in stats: one file is opened and dumped
Save(r) ==
    /\ pc[r] \in SavePoints
    /\ Len(written[r]) < Len(stats[r])
    /\ LET i == Len(written[r]) + 1
           language == stats[r][i][1]
           path == ArtifactPath(language, r)
       IN  /\ folder' = WriteFile(folder, path, JsonDump(language, stats[r][i][2]))
           /\ written' = [written EXCEPT ![r] = Append(@, path)]
           /\ pc' = [pc EXCEPT ![r] = IF i = Len(stats[r]) THEN "done" ELSE @]
    /\ UNCHANGED <<stats, taken, out>>
    /\ UNCHANGED rvars
    /\ UNCHANGED tvars

CollectorsOver == \A r \in DOMAIN pc : pc[r] \in {"done", "failed", "closed"}

\* a file the collectors did not write lies in the reducer's input folder
ExternalWrite(content) ==
    /\ CollectorsOver
    /\ rpc = "init"
    /\ ForeignPath \notin DOMAIN folder
    /\ folder' = WriteFile(folder, ForeignPath, content)
    /\ UNCHANGED <<pc, stats, taken, out, written>>
    /\ UNCHANGED rvars
    /\ UNCHANGED tvars

\* --------------------------------------------------------------- reducer
\* LanguageStatsReducer.run up to the listing of the input folder
ReducerStart(ws) ==
    /\ CollectorsOver
    /\ rpc = "init"
    /\ world_size' = ws
    /\ IF WorldSizeAccepted(ws)
       THEN /\ rpc' = "read"
            /\ listing' = GlobJson(folder)
       ELSE /\ rpc' = "failed"
            /\ listing' = listing
    /\ UNCHANGED <<read, rstats, doc_count, map_calls, reports>>
    /\ UNCHANGED <<folder>>
    /\ UNCHANGED cvars
    /\ UNCHANGED tvars

\* one turn of "for file in list_files": json.load and the merge
ReadFile(file) ==
    /\ rpc = "read"
    /\ file \in listing
    /\ listing' = listing \ {file}
    /\ IF ~JsonLoad(folder[file]).raised
       THEN LET acc == MergeFile([stats |-> rstats, doc_count |-> doc_count],
                                 JsonLoad(folder[file]).data)
            IN  /\ rstats' = acc.stats
                /\ doc_count' = acc.doc_count
                /\ read' = Append(read, file)
                /\ rpc' = "read"
       ELSE /\ rpc' = "failed"
            /\ UNCHANGED <<rstats, doc_count, read>>
    /\ UNCHANGED <<world_size, map_calls, reports, folder>>
    /\ UNCHANGED cvars
    /\ UNCHANGED tvars

\* the averaging loop over all languages
Average ==
    /\ rpc = "read"
    /\ listing = {}
    /\ IF AverageRaises(rstats, doc_count)
       THEN /\ rpc' = "failed"
            /\ rstats' = rstats
       ELSE /\ rpc' = "map"
            /\ rstats' = AverageStats(rstats, doc_count)
    /\ UNCHANGED <<world_size, listing, read, doc_count, map_calls, reports, folder>>
    /\ UNCHANGED cvars
    /\ UNCHANGED tvars

\* LanguageStatistics and map_fn for every language
Map ==
    /\ rpc = "map"
    /\ rstats' = MapStats(rstats)
    /\ map_calls' = map_calls \o DictKeys(rstats)
    /\ rpc' = IF rstats = <<>> THEN "done" ELSE "save"
    /\ UNCHANGED <<world_size, listing, read, doc_count, reports, folder>>
    /\ UNCHANGED cvars
    /\ UNCHANGED tvars

\* for language in stats: one report file
SaveReport ==
    /\ rpc = "save"
    /\ LET i == Cardinality(DOMAIN reports) + 1
       IN  /\ reports' = WriteFile(reports, ReportPath(rstats[i][1]), rstats[i][2])
           /\ rpc' = IF i = Len(rstats) THEN "done" ELSE "save"
    /\ UNCHANGED <<world_size, listing, read, rstats, doc_count, map_calls, folder>>
    /\ UNCHANGED cvars
    /\ UNCHANGED tvars

Next ==
    \/ \E r \in Ranks, doc \in Docs : Take(r, doc)
    \/ \E r \in Ranks : Resume(r)
    \/ \E r \in Ranks : Abandon(r)
    \/ \E r \in Ranks : EndOfStream(r)
    \/ \E r \in Ranks : Save(r)
    \/ \E content \in ForeignFiles : ExternalWrite(content)
    \/ \E ws \in {1, 2} : ReducerStart(ws)
    \/ \E file \in listing : ReadFile(file)
    \/ Average
    \/ Map
    \/ SaveReport

Spec == Init /\ [][Next]_vars

\* ------------------------------------------ the collectors on their own
NextCollect ==
    \/ \E r \in Ranks, doc \in Docs : Take(r, doc)
    \/ \E r \in Ranks : Resume(r)
    \/ \E r \in Ranks : Abandon(r)
    \/ \E r \in Ranks : EndOfStream(r)
    \/ \E r \in Ranks : Save(r)

SpecCollect == Init /\ [][NextCollect]_vars

\* ------------------------------------------- the reduce phase on its own
\* The reducer started on the artifacts that MaxShards collectors leave
\* after consuming the shards of a corpus of at most MaxMergeDocs documents
\* of one language.
MaxShards == 3
MaxMergeDocs == 3
ShardRanks == 0 .. (MaxShards - 1)
MergeDocs == {d \in Docs : ~DocRaises(d.text) /\ language_field \in DOMAIN d.metadata}

\* the collector's loop over a whole stream of documents that do not raise
RECURSIVE CollectAll(_, _)
CollectAll(st, docs) ==
    IF docs = <<>> THEN st
    ELSE CollectAll(UpdateStats(st, Head(docs)), Tail(docs))

\* the files a collector that ran to its end has written, one after another
RECURSIVE SaveAll(_, _, _)
SaveAll(dir, st, rank) ==
    IF st = <<>> THEN dir
    ELSE SaveAll(WriteFile(dir, ArtifactPath(Head(st)[1], rank),
                           JsonDump(Head(st)[1], Head(st)[2])),
                 Tail(st), rank)

RECURSIVE SaveRanks(_, _, _)
SaveRanks(dir, st, rs) ==
    IF rs = {} THEN dir
    ELSE LET r == CHOOSE x \in rs : TRUE
         IN  SaveRanks(SaveAll(dir, st[r], r), st, rs \ {r})

\* the shard of rank r: the documents of the corpus assigned to r, in order
RECURSIVE Shard(_, _, _)
Shard(corpus, assign, r) ==
    IF corpus = <<>> THEN <<>>
    ELSE (IF Head(assign) = r THEN <<Head(corpus)>> ELSE <<>>)
           \o Shard(Tail(corpus), Tail(assign), r)

Corpora == UNION {[1 .. n -> MergeDocs] : n \in 0 .. MaxMergeDocs}
Splits == UNION {[1 .. n -> ShardRanks] : n \in 0 .. MaxMergeDocs}

InitMerge ==
    /\ taken \in {[r \in ShardRanks |-> Shard(c, a, r)] :
                    <<c, a>> \in {x \in Corpora \X Splits : Len(x[1]) = Len(x[2])}}
    /\ out = taken
    /\ stats = [r \in ShardRanks |-> FinalizeStats(CollectAll(<<>>, taken[r]))]
    /\ pc = [r \in ShardRanks |-> "done"]
    /\ written = [r \in ShardRanks |->
                    [i \in DOMAIN stats[r] |-> ArtifactPath(stats[r][i][1], r)]]
    /\ folder = SaveRanks(EmptyFolder, stats, ShardRanks)
    /\ rpc = "init"
    /\ world_size = 1
    /\ listing = {}
    /\ read = <<>>
    /\ rstats = <<>>
    /\ doc_count = <<>>
    /\ map_calls = <<>>
    /\ reports = EmptyFolder
    /\ InitTokenizer

NextMerge ==
    \/ \E ws \in {1, 2} : ReducerStart(ws)
    \/ \E file \in listing : ReadFile(file)
    \/ Average
    \/ Map
    \/ SaveReport

SpecMerge == InitMerge /\ [][NextMerge]_vars

\* ------------------------- the reduce phase with a rounded artifact
\* The reducer started on the artifacts of the collectors and one more
\* artifact, of a key of theirs or of another key, whose means of squares
\* lie below the squares of its means.
InitRounded ==
    /\ taken \in {[r \in ShardRanks |-> Shard(c, a, r)] :
                    <<c, a>> \in {x \in Corpora \X Splits : Len(x[1]) = Len(x[2])}}
    /\ out = taken
    /\ stats = [r \in ShardRanks |-> FinalizeStats(CollectAll(<<>>, taken[r]))]
    /\ pc = [r \in ShardRanks |-> "done"]
    /\ written = [r \in ShardRanks |->
                    [i \in DOMAIN stats[r] |-> ArtifactPath(stats[r][i][1], r)]]
    /\ folder \in {WriteFile(SaveRanks(EmptyFolder, stats, ShardRanks),
                             ForeignPath, RoundedFile(language)) :
                     language \in {"en", "ko"}}
    /\ rpc = "init"
    /\ world_size = 1
    /\ listing = {}
    /\ read = <<>>
    /\ rstats = <<>>
    /\ doc_count = <<>>
    /\ map_calls = <<>>
    /\ reports = EmptyFolder
    /\ InitTokenizer

SpecRounded == InitRounded /\ [][NextMerge]_vars

\* ------------------------------------------- the tokenizer on its own
\* word_tokenize(text, language)
WordTokenize(text, language) ==
    /\ LET got == GetTokenizer(tokenizers, fallback_tokenizer,
                               WORD_TOKENIZER_FACTORY, language)
       IN  /\ tokenizers' = got.tokenizers
           /\ fallback_tokenizer' = got.fallback_tokenizer
           /\ last_call' = [method |-> "word_tokenize", language |-> language,
                            text |-> text, cached |-> language \in DOMAIN tokenizers,
                            tokenizer |-> got.tokenizer]
    /\ UNCHANGED <<cvars, rvars, folder>>

\* sent_tokenize(text, language)
SentTokenize(text, language) ==
    /\ LET got == GetTokenizer(tokenizers, fallback_tokenizer,
                               WORD_TOKENIZER_FACTORY, language)
       IN  /\ tokenizers' = got.tokenizers
           /\ fallback_tokenizer' = got.fallback_tokenizer
           /\ last_call' = [method |-> "sent_tokenize", language |-> language,
                            text |-> text, cached |-> language \in DOMAIN tokenizers,
                            tokenizer |-> got.tokenizer]
    /\ UNCHANGED <<cvars, rvars, folder>>

NextTokenizer ==
    \/ \E text \in TokenizerTexts, language \in TokenizerLanguages :
          WordTokenize(text, language)
    \/ \E text \in TokenizerTexts, language \in TokenizerLanguages :
          SentTokenize(text, language)

SpecTokenizer == Init /\ [][NextTokenizer]_vars

\* ---------------------------------------------------------------- claims
RECURSIVE SetToSeq(_)
SetToSeq(S) ==
    IF S = {} THEN <<>>
    ELSE LET x == CHOOSE y \in S : TRUE IN <<x>> \o SetToSeq(S \ {x})

SeqToSet(q) == {q[i] : i \in DOMAIN q}

\* the reducer has averaged every language without raising
Averaged == rpc \in {"map", "save", "done"}

\* the documents of all ranks, rank after rank
RECURSIVE CorpusFrom(_)
CorpusFrom(r) ==
    IF r \notin DOMAIN taken THEN <<>> ELSE taken[r] \o CorpusFrom(r + 1)

\* C1: when every collector ran to its end and the reducer has averaged,
\* the merged mean and std of every ratio metric of every key are the mean
\* and the std (the square root of mean of squares minus squared mean) that
\* one collector computes over the whole corpus.
C1_ShardedEqualsSingle ==
    (Averaged /\ \A r \in DOMAIN pc : pc[r] = "done") =>
        LET single == FinalizeStats(CollectAll(<<>>, CorpusFrom(0)))
        IN  \A i \in DOMAIN single :
              LET key == JsonKey(single[i][1])
                  art == single[i][2]
              IN  /\ DictHas(rstats, key)
                  /\ \A k \in MetricKeys :
                       /\ DictGet(rstats, key).mean[k] = art.mean[k]
                       /\ DictGet(rstats, key).std[k] =
                            NpSqrt(RSub(art.sq_mean[k],
                                        RMul(art.mean[k], art.mean[k])))

\* two shards of different sizes and different means were merged
C1_Witness ==
    /\ rpc = "done"
    /\ \A r \in DOMAIN pc : pc[r] = "done"
    /\ \E p, q \in SeqToSet(read) :
         /\ folder[p].data[1][1] = "en" /\ folder[q].data[1][1] = "en"
         /\ folder[p].data[1][2].total_docs # folder[q].data[1][2].total_docs
         /\ folder[p].data[1][2].mean["hash_word_ratio"]
              # folder[q].data[1][2].mean["hash_word_ratio"]

\* the averaged result of merging a sequence of parsed files
RECURSIVE MergeFiles(_, _)
MergeFiles(acc, files) ==
    IF files = <<>> THEN acc ELSE MergeFiles(MergeFile(acc, Head(files)), Tail(files))

MergeState(files) == MergeFiles([stats |-> <<>>, doc_count |-> <<>>], files)

ReduceFiles(files) ==
    LET acc == MergeState(files) IN AverageStats(acc.stats, acc.doc_count)

\* the merge of a group of files as one artifact file: counters added,
\* weighted mean and weighted mean of squares, total_docs as its weight
GroupFile(files) ==
    LET acc == MergeState(files)
    IN  [i \in DOMAIN acc.stats |->
           LET m == acc.stats[i][2]
               w == DictGet(acc.doc_count, acc.stats[i][1])
           IN  <<acc.stats[i][1],
                 [length_counter |->
                    [j \in DOMAIN m.length_counter |->
                       <<IntKeyToStr(m.length_counter[j][1]), m.length_counter[j][2]>>],
                  word_counter |-> m.word_counter,
                  total_words |-> m.total_words,
                  total_docs |-> m.total_docs,
                  total_bytes |-> m.total_bytes,
                  mean |-> [k \in MetricKeys |-> NpAverage(m.mean[k], w)],
                  sq_mean |-> [k \in MetricKeys |-> NpAverage(m.std[k], w)]]>>]

\* two results agree: the same keys, equal counters, totals, means and stds
SameResult(a, b) ==
    /\ SeqToSet(DictKeys(a)) = SeqToSet(DictKeys(b))
    /\ \A i \in DOMAIN a :
         LET x == a[i][2]
             y == DictGet(b, a[i][1])
         IN  /\ DictItems(x.length_counter) = DictItems(y.length_counter)
             /\ DictItems(x.word_counter) = DictItems(y.word_counter)
             /\ x.total_words = y.total_words
             /\ x.total_docs = y.total_docs
             /\ x.total_bytes = y.total_bytes
             /\ x.mean = y.mean
             /\ x.std = y.std

FilesOf(paths) == [i \in DOMAIN paths |-> folder[paths[i]].data]

\* C2: whatever the order in which the reducer read the artifacts, its
\* averaged result is the result of merging them in one fixed order, and
\* the result of merging any two groups of them first (the group of the
\* file read first and the group of the others) and the two group results
\* next.
C2_OrderAndGrouping ==
    rpc = "map" =>
        /\ SameResult(rstats, ReduceFiles(FilesOf(SetToSeq(SeqToSet(read)))))
        /\ \A G \in SUBSET SeqToSet(read) :
             (G # {} /\ G # SeqToSet(read) /\ read[1] \in G) =>
                SameResult(rstats,
                           ReduceFiles(<<GroupFile(FilesOf(SetToSeq(G))),
                                         GroupFile(FilesOf(SetToSeq(SeqToSet(read) \ G)))>>))

\* three artifacts of one key with different means, read in another order
\* than the fixed one
C2_Witness ==
    /\ rpc = "map"
    /\ Len(read) = 3
    /\ read # SetToSeq(SeqToSet(read))
    /\ \A i \in DOMAIN read : folder[read[i]].data[1][1] = "en"
    /\ \E i, j \in DOMAIN read :
         folder[read[i]].data[1][2].mean["hash_word_ratio"]
           # folder[read[j]].data[1][2].mean["hash_word_ratio"]

\* the count of a key in one counter of one language of a file
FileCount(file, language, field, key) ==
    LET entries == {i \in DOMAIN file : file[i][1] = language}
    IN  IF entries = {} THEN 0
        ELSE LET e == file[CHOOSE i \in entries : TRUE][2]
             IN  IF field = "length_counter"
                 THEN CounterGet(e.length_counter, IntKeyToStr(key))
                 ELSE CounterGet(e.word_counter, key)

FileTotal(file, language, field) ==
    LET entries == {i \in DOMAIN file : file[i][1] = language}
    IN  IF entries = {} THEN 0
        ELSE LET e == file[CHOOSE i \in entries : TRUE][2]
             IN  IF field = "length_counter" THEN CounterTotal(e.length_counter)
                 ELSE CounterTotal(e.word_counter)

SumOver(files, F(_)) == IntSum([i \in DOMAIN files |-> F(files[i])])

MergedCounter(m, field) ==
    IF field = "length_counter" THEN m.length_counter ELSE m.word_counter

\* C3: while and after the reducer reads, for every key and for both
\* counters, every merged count is the sum of the counts of that entry in
\* the files read so far, and the merged total is the sum of their totals.
C3_HistogramConservation ==
    rpc \in {"read", "map", "failed"} =>
        \A i \in DOMAIN rstats : \A field \in {"length_counter", "word_counter"} :
            LET language == rstats[i][1]
                c == MergedCounter(rstats[i][2], field)
                files == FilesOf(read)
            IN  /\ \A j \in DOMAIN c :
                     c[j][2] = SumOver(files, LAMBDA f :
                                  FileCount(f, language, field, c[j][1]))
                /\ CounterTotal(c) = SumOver(files, LAMBDA f :
                                        FileTotal(f, language, field))

\* two artifacts of one key that share a word have been merged
C3_Witness ==
    /\ rpc = "map"
    /\ Len(read) = 2
    /\ \A i \in DOMAIN read : folder[read[i]].data[1][1] = "en"
    /\ \E w \in SeqToSet(DictKeys(DictGet(rstats, "en").word_counter)) :
         \A i \in DOMAIN read :
            FileCount(folder[read[i]].data, "en", "word_counter", w) > 0

\* C4: every document a collector has taken from its input has been
\* yielded, in the order taken and unchanged (a document is taken only by
\* the step that also yields it, so document i is out before i+1 is taken).
C4_PassThrough == \A r \in Ranks : out[r] = taken[r]

\* the documents of a sequence whose metadata gives the language
DocsOf(docs, language) ==
    SelectSeq(docs, LAMBDA d : MetadataGet(d.metadata, language_field) = language)

\* the denominator of a ratio metric for a text
Denominator(text, k) ==
    IF k \in {"hash_word_ratio", "ellipsis_word_ratio", "alpha_ratio"}
    THEN Len(Words(text))
    ELSE IF k \in {"bullet_start_ratio", "ellipsis_end_ratio"}
    THEN Len(SplitLines(text))
    ELSE IF k \in {"line_punct_ratio", "short_line_ratio"}
    THEN Len(SplitNewline(text))
    ELSE IF k = "duplicate_line_ratio" THEN Len(RemoveNewlines(text))
    ELSE Len(Tokenize(text))

\* C5: no collector raises, and while it collects, every value recorded
\* for a metric whose denominator is 0 for that document is 0.
C5_ZeroDenominatorRecordsZero ==
    \A r \in Ranks :
        /\ pc[r] # "failed"
        /\ pc[r] \in {"loop", "yield"} =>
             \A i \in DOMAIN stats[r] : \A k \in MetricKeys :
                LET docs == DocsOf(taken[r], stats[r][i][1])
                    values == stats[r][i][2].ratios[k]
                IN  /\ Len(values) = Len(docs)
                    /\ \A j \in DOMAIN values :
                         Denominator(docs[j].text, k) = 0 => values[j] = RZero

\* the keys a collector saw
KeysSeen(r) ==
    {MetadataGet(taken[r][i].metadata, language_field) : i \in DOMAIN taken[r]}

\* C6: a collector that saw at least one document and ran to its end has
\* written exactly one file, and that file holds every key it saw.
C6_OneFilePerWorker ==
    \A r \in Ranks :
        (pc[r] = "done" /\ taken[r] # <<>>) =>
            /\ Len(written[r]) = 1
            /\ {JsonKey(l) : l \in KeysSeen(r)}
                 \subseteq SeqToSet(DictKeys(folder[written[r][1]].data))

\* C7: a reducer called with a world_size other than 1 has failed without
\* listing or reading a file, without merge state and without a report.
C7_WorldSizeRejected ==
    (rpc # "init" /\ world_size # 1) =>
        /\ rpc = "failed"
        /\ listing = {}
        /\ read = <<>>
        /\ rstats = <<>>
        /\ doc_count = <<>>
        /\ DOMAIN reports = {}

\* the reducer was called with world_size 2 on a folder that holds files
C7_Witness ==
    /\ rpc = "failed"
    /\ world_size = 2
    /\ GlobJson(folder) # {}

CorruptPresent == \E p \in GlobJson(folder) : ~folder[p].ok

\* C8: with a file that does not parse in the input folder, the reducer
\* never gets past its reading loop (it is still to read that file, or it
\* has failed) and there is no report file.
C8_CorruptFileAborts ==
    CorruptPresent =>
        /\ rpc \in {"init", "read", "failed"}
        /\ rpc = "read" => \E p \in listing : ~folder[p].ok
        /\ DOMAIN reports = {}

\* the run failed on the corrupt file after it had merged an artifact
C8_Witness ==
    /\ CorruptPresent
    /\ rpc = "failed"
    /\ world_size = 1
    /\ Len(read) >= 1
    /\ rstats # <<>>

\* how the report is to show a metric without data
Undefined == <<"undefined">>

\* C9: a reduce run that read every file, all of them parsed, and merged
\* a key to total_docs = 0 does not fail, and its report shows that key's
\* ratio metrics as undefined.
C9_ZeroDocsUndefined ==
    (/\ world_size = 1
     /\ rpc \notin {"init", "read"}
     /\ listing = {}
     /\ ~CorruptPresent
     /\ \E i \in DOMAIN rstats : rstats[i][2].total_docs = 0) =>
        /\ rpc # "failed"
        /\ rpc = "done" =>
             \A i \in DOMAIN rstats :
                rstats[i][2].total_docs = 0 =>
                   \A k \in MetricKeys :
                      /\ reports[ReportPath(rstats[i][1])].mean[k] = Undefined
                      /\ reports[ReportPath(rstats[i][1])].std[k] = Undefined

\* C10: a collector that took a document without the language field has
\* not failed on it and keeps its aggregate under the key "unknown"; the
\* files it wrote for such documents lie under "unknown" and are keyed
\* "unknown".
C10_MissingFieldIsUnknown ==
    \A r \in Ranks :
        (\E i \in DOMAIN taken[r] : language_field \notin DOMAIN taken[r][i].metadata) =>
            /\ DictHas(stats[r], "unknown")
            /\ ~DictHas(stats[r], None)
            /\ \A i \in DOMAIN written[r] :
                 written[r][i][1] \notin {"None", "null"}

\* ------------------------------------------------------------------ C11
\* the ranks whose collector ran to its end
DoneRanks == {r \in DOMAIN pc : pc[r] = "done"}

\* the documents of a stream that belong to a key of the artifacts
KeyDocs(docs, key) ==
    SelectSeq(docs, LAMBDA d : JsonKey(MetadataGet(d.metadata, language_field)) = key)

\* how often the word w occurs (in any case) in the documents of the key
WordOccurrences(docs, key, w) ==
    IntSum([i \in DOMAIN KeyDocs(docs, key) |->
              CountIf(Words(KeyDocs(docs, key)[i].text), LAMBDA x : LowerStr(x) = w)])

\* the words of a stream of documents, lowercased
WordsSeen(docs) ==
    UNION {{LowerStr(x) : x \in SeqToSet(Words(docs[i].text))} : i \in DOMAIN docs}

\* the input folder of the reducer holds the collectors' artifacts only
OnlyCollected == ForeignPath \notin DOMAIN folder

\* C11 (as stated): once the reducer has averaged artifacts of collectors
\* only, the merged count of every word of every key is the number of its
\* occurrences over the
\* shards of all collectors that ran to their end, also for a word that is
\* rare inside each shard.
C11_RareWordsKept ==
    (Averaged /\ OnlyCollected) =>
        \A i \in DOMAIN rstats : \A r \in DoneRanks : \A w \in WordsSeen(taken[r]) :
            CounterGet(rstats[i][2].word_counter, w) =
                IntSum([j \in DOMAIN SetToSeq(DoneRanks) |->
                          WordOccurrences(taken[SetToSeq(DoneRanks)[j]], rstats[i][1], w)])

\* C11 (amended): once the reducer has averaged artifacts of collectors
\* only, the merged count of a word is the sum of its occurrences
\* over those shards only in which it occurs at least word_count_prune
\* times; total_words and total_docs count every word and every document.
C11_RareWordsPrunedPerShard ==
    (Averaged /\ OnlyCollected) =>
        \A i \in DOMAIN rstats :
            LET key == rstats[i][1]
                ranks == SetToSeq(DoneRanks)
            IN  /\ \A r \in DoneRanks : \A w \in WordsSeen(taken[r]) :
                     CounterGet(rstats[i][2].word_counter, w) =
                       IntSum([j \in DOMAIN ranks |->
                                 LET n == WordOccurrences(taken[ranks[j]], key, w)
                                 IN  IF n >= word_count_prune THEN n ELSE 0])
                /\ rstats[i][2].total_words =
                     IntSum([j \in DOMAIN ranks |->
                               IntSum([d \in DOMAIN KeyDocs(taken[ranks[j]], key) |->
                                         Len(Words(KeyDocs(taken[ranks[j]], key)[d].text))])])
                /\ rstats[i][2].total_docs =
                     IntSum([j \in DOMAIN ranks |-> Len(KeyDocs(taken[ranks[j]], key))])

\* two shards of one document "a a b" each were merged: "b", met once in
\* each shard, is missing from the merged word histogram
C11_Witness ==
    /\ rpc = "done"
    /\ \A r \in DOMAIN pc :
         /\ pc[r] = "done"
         /\ taken[r] = IF r \in {0, 1}
                       THEN <<[text |-> TextAAB, metadata |-> [language |-> "en"]]>>
                       ELSE <<>>
    /\ DictItems(DictGet(rstats, "en").word_counter) = {<<<<"a">>, 4>>}
    /\ DictItems(DictGet(rstats, "en").length_counter) = {<<1, 6>>}
    /\ DictGet(rstats, "en").total_words = 6
    /\ DictGet(rstats, "en").total_docs = 2

\* ------------------------------------------------------------------ C12
\* the keys that occur in at least one artifact of the input folder
ArtifactKeys ==
    UNION {{folder[f].data[i][1] : i \in DOMAIN folder[f].data} : f \in GlobJson(folder)}

\* C12: map_fn is called only after every artifact of the folder has been
\* merged, at most once for a key, and once the calls are made they are the
\* calls for exactly the keys found in the artifacts; every report written
\* is the report of such a key, and a run that ends with success has
\* written exactly one report for each of them.
C12_OneMapCallAndReportPerKey ==
    /\ map_calls # <<>> =>
         /\ listing = {}
         /\ SeqToSet(read) = GlobJson(folder)
         /\ Len(read) = Cardinality(GlobJson(folder))
    /\ \A i, j \in DOMAIN map_calls : map_calls[i] = map_calls[j] => i = j
    /\ rpc \in {"save", "done"} => SeqToSet(map_calls) = ArtifactKeys
    /\ DOMAIN reports \subseteq {ReportPath(k) : k \in ArtifactKeys}
    /\ rpc = "done" =>
         /\ DOMAIN reports = {ReportPath(k) : k \in ArtifactKeys}
         /\ Cardinality(DOMAIN reports) = Cardinality(ArtifactKeys)
         /\ \A k \in ArtifactKeys : reports[ReportPath(k)] = DictGet(rstats, k)

\* a successful run over three artifacts of two keys, two of them of the
\* same key
C12_Witness ==
    /\ rpc = "done"
    /\ Len(read) = 3
    /\ Len(map_calls) = 2
    /\ Cardinality(DOMAIN reports) = 2

\* ------------------------------------------------------------------ C13
\* C13: whatever the order in which the reducer read the artifacts, the
\* word table of every key handed to map_fn (the list of most_common) is
\* the table obtained by reading the same artifacts in one fixed order,
\* also when words have equal merged counts.
C13_SameTableForEveryOrder ==
    rpc \in {"save", "done"} =>
        LET fixed == MapStats(ReduceFiles(FilesOf(SetToSeq(SeqToSet(read)))))
        IN  \A i \in DOMAIN rstats :
              rstats[i][2].word_counter = DictGet(fixed, rstats[i][1]).word_counter

\* ------------------------------------------------------------------ C14
\* the thresholds word_count_prune is set to
MaxPrune == 3

\* C14: for the word histogram a collector holds when its stream ends, the
\* finalized aggregate holds the histogram pruned with word_count_prune; for
\* thresholds t1 <= t2 the histogram pruned with t2 is contained in the
\* one pruned with t1; pruning with t keeps every entry whose count is at
\* least t and keeps it with its count.
C14_PruningMonotone ==
    \A r \in DOMAIN pc : (pc[r] = "save" /\ written[r] = <<>>) =>
        LET before == CollectAll(<<>>, taken[r])
        IN  \A i \in DOMAIN before :
              LET c == before[i][2].word_counter
              IN  /\ DictGet(stats[r], before[i][1]).word_counter
                       = PruneWords(c, word_count_prune)
                  /\ \A t1, t2 \in 0 .. MaxPrune :
                       t1 <= t2 => DictItems(PruneWords(c, t2))
                                     \subseteq DictItems(PruneWords(c, t1))
                  /\ \A t \in 0 .. MaxPrune :
                       /\ DictItems(PruneWords(c, t)) \subseteq DictItems(c)
                       /\ \A e \in DictItems(c) :
                            e[2] >= t => e \in DictItems(PruneWords(c, t))

\* a collector ended with a histogram of which the pruning removed a word
\* and kept another
C14_Witness ==
    \E r \in DOMAIN pc :
        /\ pc[r] = "save"
        /\ written[r] = <<>>
        /\ DictHas(stats[r], "en")
        /\ DictGet(stats[r], "en").word_counter # <<>>
        /\ Len(DictGet(stats[r], "en").word_counter)
             < Len(DictGet(CollectAll(<<>>, taken[r]), "en").word_counter)

\* ------------------------------------------------------------------ C15
\* the tokenizer a language has to be served by
TokenizerFor(language) ==
    IF language \in DOMAIN WORD_TOKENIZER_FACTORY
    THEN WORD_TOKENIZER_FACTORY[language]
    ELSE SpaCyTokenizer("xx")

\* C15: every call of word_tokenize and sent_tokenize is served by the
\* tokenizer of the language's own factory when the language is
\* registered and by the fallback tokenizer when it is not, on the first
\* call and, from the cache, on every later call.
C15_FallbackForUnregistered ==
    /\ last_call.method # None => last_call.tokenizer = TokenizerFor(last_call.language)
    /\ \A l \in DOMAIN tokenizers : tokenizers[l] = TokenizerFor(l)
    /\ fallback_tokenizer \in {NoTokenizer, SpaCyTokenizer("xx")}

\* a later call with an unregistered language was served from the cache,
\* after a registered language was served too
C15_Witness ==
    /\ last_call.method = "sent_tokenize"
    /\ last_call.language = "zz"
    /\ last_call.cached
    /\ last_call.tokenizer = SpaCyTokenizer("xx")
    /\ "ko" \in DOMAIN tokenizers
    /\ tokenizers["ko"] = KiwiTokenizer

\* ------------------------------------------------------------------ C16
\* the entries of a key in the artifacts the reducer read, in reading order
KeyEntries(key) ==
    LET fs == SelectSeq(read, LAMBDA f : DictHas(folder[f].data, key))
    IN  [i \in DOMAIN fs |-> DictGet(folder[fs[i]].data, key)]

\* sum of total_docs_i * moment_i over sum of total_docs_i
PooledMoment(entries, field, k) ==
    RDiv(RSum([i \in DOMAIN entries |->
                 RMul(RInt(entries[i].total_docs), entries[i][field][k])]),
         RInt(IntSum([i \in DOMAIN entries |-> entries[i].total_docs])))

\* an artifact of key "en" with the given total_docs, mean and mean of squares
MomentsFile(n, mean, sq_mean) ==
    <<<<"en", [length_counter |-> <<>>, word_counter |-> <<>>,
               total_words |-> 0, total_docs |-> n, total_bytes |-> 0,
               mean |-> [k \in MetricKeys |-> mean],
               sq_mean |-> [k \in MetricKeys |-> sq_mean]]>>>>

\* C16: once the reducer has averaged, the merged mean of every metric of
\* every key is the sum of total_docs_i * mean_i over the sum of
\* total_docs_i, and the merged std is the square root of the mean of
\* squares pooled in the same way minus the squared merged mean; the
\* partitions (10, 0.2, 0.08) and (30, 0.4, 0.20) merge to mean 0.35 and
\* variance 0.17 - 0.35^2 = 0.0475.
C16_PooledMoments ==
    Averaged =>
        /\ \A i \in DOMAIN rstats : \A k \in MetricKeys :
             LET entries == KeyEntries(rstats[i][1])
                 mean == PooledMoment(entries, "mean", k)
                 sq_mean == PooledMoment(entries, "sq_mean", k)
             IN  /\ rstats[i][2].mean[k] = mean
                 /\ rstats[i][2].std[k] = NpSqrt(RSub(sq_mean, RMul(mean, mean)))
        /\ LET m == DictGet(ReduceFiles(<<MomentsFile(10, Rat(1, 5), Rat(2, 25)),
                                          MomentsFile(30, Rat(2, 5), Rat(1, 5))>>), "en")
           IN  \A k \in MetricKeys :
                 /\ m.mean[k] = Rat(35, 100)
                 /\ m.std[k] = NpSqrt(RSub(Rat(17, 100),
                                           RMul(Rat(35, 100), Rat(35, 100))))
                 /\ m.std[k] = NpSqrt(Rat(475, 10000))

\* artifacts of one key with different weights, different means and
\* different means of squares were averaged
C16_Witness ==
    /\ rpc = "map"
    /\ \E k \in MetricKeys :
         \E i, j \in DOMAIN KeyEntries("en") :
           /\ KeyEntries("en")[i].total_docs # KeyEntries("en")[j].total_docs
           /\ KeyEntries("en")[i].mean[k] # KeyEntries("en")[j].mean[k]
           /\ KeyEntries("en")[i].sq_mean[k] # KeyEntries("en")[j].sq_mean[k]
           /\ DictGet(rstats, "en").mean[k] # RZero

\* ------------------------------------------------------------------ C17
\* C17: while a collector stands at a yield or at the head of its loop
\* (where the end of the stream starts the finalization), each of the nine
\* ratio sequences of every key holds exactly total_docs entries; the
\* means of a key that has just been finalized are the means of
\* total_docs entries.
C17_RatiosMatchTotalDocs ==
    \A r \in DOMAIN pc :
        /\ pc[r] \in {"yield", "loop"} =>
             \A i \in DOMAIN stats[r] : \A k \in MetricKeys :
                 Len(stats[r][i][2].ratios[k]) = stats[r][i][2].total_docs
        /\ (pc[r] = "save" /\ written[r] = <<>>) =>
             LET before == CollectAll(<<>>, taken[r])
             IN  \A i \in DOMAIN before : \A k \in MetricKeys :
                   /\ Len(before[i][2].ratios[k]) = stats[r][i][2].total_docs
                   /\ stats[r][i][2].mean[k] = NpMean(before[i][2].ratios[k])
                   /\ stats[r][i][2].sq_mean[k] = NpMean(Squares(before[i][2].ratios[k]))

\* a collector stands at a yield with two keys, one of them with two
\* documents without words
C17_Witness ==
    \E r \in DOMAIN pc :
        /\ pc[r] = "yield"
        /\ DictHas(stats[r], "en")
        /\ DictHas(stats[r], None)
        /\ DictGet(stats[r], None).total_docs = 2
        /\ DictGet(stats[r], None).total_words = 0
        /\ Len(DictGet(stats[r], None).ratios["hash_word_ratio"]) = 2

\* ------------------------------------------------------------------ C18
\* C18: once the reducer has averaged, no std of any metric of any key is
\* NaN: it is the square root of the pooled mean of squares minus the
\* squared pooled mean, or of zero when that difference is negative.
C18_StdNeverNaN ==
    Averaged =>
        \A i \in DOMAIN rstats : \A k \in MetricKeys :
            LET entries == KeyEntries(rstats[i][1])
                mean == PooledMoment(entries, "mean", k)
                variance == RSub(PooledMoment(entries, "sq_mean", k), RMul(mean, mean))
            IN  /\ ~rstats[i][2].std[k].nan
                /\ rstats[i][2].std[k].sqrt_of
                     = IF RLess(variance, RZero) THEN RZero ELSE variance

\* ------------------------------------------------------------------ C19
\* C19: for every key of every collector, while the collection loop runs
\* (also where a division has raised) the counts of length_counter and the
\* counts of word_counter both sum to total_words; after the finalization
\* length_counter still does, and word_counter sums to at most total_words.
C19_CountersSumToTotalWords ==
    \A r \in DOMAIN pc : \A i \in DOMAIN stats[r] :
        LET agg == stats[r][i][2]
        IN  /\ CounterTotal(agg.length_counter) = agg.total_words
            /\ pc[r] \in {"loop", "yield", "failed"} =>
                 CounterTotal(agg.word_counter) = agg.total_words
            /\ pc[r] \in {"save", "done"} =>
                 CounterTotal(agg.word_counter) <= agg.total_words

\* one collector stands at a yield with a repeated word counted, another
\* has finalized a histogram that lost a word to the pruning
C19_Witness ==
    \E r, q \in DOMAIN pc :
        /\ pc[r] = "yield"
        /\ DictHas(stats[r], "en")
        /\ DictGet(stats[r], "en").total_words >= 3
        /\ \E e \in DictItems(DictGet(stats[r], "en").word_counter) : e[2] >= 2
        /\ pc[q] = "done"
        /\ DictHas(stats[q], "en")
        /\ CounterTotal(DictGet(stats[q], "en").word_counter)
             < DictGet(stats[q], "en").total_words

\* ------------------------------------------------------------------ C20
\* C20: a collector has opened an artifact file only if its input was
\* exhausted and every document it took was yielded; while it runs, and
\* after it raised or its consumer stopped pulling, the folder holds no
\* file of its rank.
C20_ArtifactsOnlyAfterFullRun ==
    \A r \in DOMAIN pc :
        /\ written[r] # <<>> =>
             /\ pc[r] \in {"save", "done"}
             /\ out[r] = taken[r]
        /\ pc[r] \notin {"save", "done"} =>
             \A p \in DOMAIN folder : p = ForeignPath \/ p[2] # Rank05d(r)

\* one collector was closed at its second yield, another raised after a
\* yield, and neither left a file
C20_Witness ==
    \E r, q \in DOMAIN pc :
        /\ pc[r] = "closed"
        /\ Len(out[r]) = 2
        /\ written[r] = <<>>
        /\ pc[q] = "failed"
        /\ Len(taken[q]) = 1
        /\ written[q] = <<>>

\* ------------------------------------------------------------------ C21
\* The collectors and the reducer on documents of three keys: a language,
\* no language field, and the language string "None".
SharedDocs ==
    { [text |-> TextAAB, metadata |-> [language |-> "en"]],
      [text |-> TextHash, metadata |-> [dump |-> "CC-MAIN"]],
      [text |-> TextAAB, metadata |-> [language |-> "None"]] }

NextShared ==
    \/ \E r \in Ranks, doc \in SharedDocs : Take(r, doc)
    \/ \E r \in Ranks : Resume(r)
    \/ \E r \in Ranks : EndOfStream(r)
    \/ \E r \in Ranks : Save(r)
    \/ \E ws \in {1, 2} : ReducerStart(ws)
    \/ \E file \in listing : ReadFile(file)
    \/ Average
    \/ Map
    \/ SaveReport

SpecShared == Init /\ [][NextShared]_vars

\* the paths opened by two different ranks are different paths
DistinctRanksDistinctPaths ==
    \A r, q \in DOMAIN pc :
        r # q => SeqToSet(written[r]) \cap SeqToSet(written[q]) = {}

\* the files of the listing that hold the statistics of rank r for key k
FilesHolding(files, r, k) ==
    {p \in files :
        /\ p[2] = Rank05d(r)
        /\ DictHas(folder[p].data, JsonKey(k))
        /\ DictGet(folder[p].data, JsonKey(k))
             = JsonDump(k, DictGet(stats[r], k)).data[1][2]}

\* C21: under every interleaving two collectors of different ranks never
\* open the same path; and when every collector ran to its end, the
\* listing the reducer starts from holds, for every rank and every key
\* the rank saw, exactly one file with that rank's statistics of that key.
C21_NoOverwriteNoDoubleCount ==
    /\ DistinctRanksDistinctPaths
    /\ (rpc = "read" /\ read = <<>> /\ \A r \in DOMAIN pc : pc[r] = "done") =>
         \A r \in DOMAIN pc : \A k \in KeysSeen(r) :
             Cardinality(FilesHolding(listing, r, k)) = 1

====
